---- MODULE Spec2Model ----
(***************************************************************************)
(* Forward error correction core of wireless-comms-suite (src/src/coding.c)*)
(* rate-1/2 K=7 convolutional encoder, hard and soft Viterbi decoders and  *)
(* the block interleaver, as state machines driven by a caller.            *)
(*                                                                         *)
(* C arrays are modelled as sequences: C index i is sequence index i+1.    *)
(* A cell no code has written holds Uninit.                                *)
(***************************************************************************)
EXTENDS Integers, Sequences, FiniteSets, TLC

\* ---------------------------------------------------------------- bounds
MaxLen == 6          \* longest data word of the short codec runs
MaxOver == 1         \* long runs have 256+1 .. 256+MaxOver data bits
MaxRows == 3         \* interleaver rows range over 1..MaxRows
MaxCols == 3         \* interleaver cols range over 1..MaxCols
MaxEncLen == 9       \* longest data word of the encoder-only runs
MaxCallLen == 3      \* longest data word of the concurrent and repeated calls
MaxPeriod == 7       \* the test-length data words have periods 2 .. MaxPeriod
MaxRecvLen == 8      \* received words stand for 1 .. MaxRecvLen data bits
SeedLen == 5         \* a received word repeats a seed of SeedLen bits
MaxLlr == 2          \* graded LLRs range over -MaxLlr .. MaxLlr
MaxBufPairs == 2     \* buffers of the calls of any length hold 1 .. MaxBufPairs pairs

\* ------------------------------------------------------ program constants
CONV_K == 7
CONV_STATES == 64
CONV_G0 == 91        \* 0133 octal
CONV_G1 == 121       \* 0171 octal
PATH_ROWS == 256     \* int path[256][CONV_STATES]
\* 1e30 in the source: a metric no accumulated path metric reaches.  The
\* model's metrics are integers of magnitude at most 20 * PATH_ROWS, so a
\* sentinel of 10^9 orders against them exactly as 1e30 does.
VITERBI_INF == 1000000000
Uninit == -1         \* content of a cell that was never written
NULL == 0

States == 0 .. (CONV_STATES - 1)
Kinds == {"hard", "soft"}

VARIABLES
    x,          \* data bits handed to conv_encode
    coded,      \* coded bit buffer: conv_encode output, then the received bits
    flipped,    \* C index of the coded bit the channel inverted, -1 if none
    llr,        \* LLR buffer handed to viterbi_decode_soft
    fec_pc,     \* position of the codec caller
    enc,        \* conv_encode's locals: loop index i and register state
    dec,        \* dec[k]: the locals and output of the running decoder k
    kept,       \* the outputs of the decoders' earlier calls on this buffer
    calls,      \* the data words of the caller's earlier rounds of calls
    itl,        \* the Interleaver struct: rows, cols, perm, inv
    heap,       \* heap[b]: the int array of malloc block b (block ids from 1)
    freed,      \* freed[b]: how many times block b was passed to free
    itl_pc,     \* position of the interleaver caller
    itl_ret,    \* return value of the last interleaver_init
    data,       \* the caller's original payload
    tx,         \* interleaved buffer (output of interleaver_apply)
    rx,         \* received interleaved buffer (tx after the burst)
    rec,        \* deinterleaved buffer (output of interleaver_deapply)
    n_arg,      \* the n passed to apply / deapply
    burst,      \* <<start, length>> of the corrupted run, <<0, 0>> if none
    oob,        \* C indices the last apply / deapply wrote past its out array
    wrote,      \* C indices written by the last apply / deapply call
    job,        \* loop indices of the apply and deapply calls in progress
    ham         \* the Hamming(7,4) caller: position, data word, codeword, outputs

fecVars == <<x, coded, flipped, llr, fec_pc, enc, dec, kept, calls>>
itlVars == <<itl, heap, freed, itl_pc, itl_ret, data, tx, rx, rec,
             n_arg, burst, oob, wrote, job>>
hamVars == <<ham>>
vars == <<x, coded, flipped, llr, fec_pc, enc, dec, kept, calls, itl, heap,
          freed, itl_pc, itl_ret, data, tx, rx, rec, n_arg, burst, oob, wrote,
          job, ham>>

\* ------------------------------------------------------------ bit helpers
RECURSIVE popcount(_)
popcount(v) == IF v = 0 THEN 0 ELSE (v % 2) + popcount(v \div 2)

RECURSIVE BitAnd(_, _)
BitAnd(a, b) ==
    IF a = 0 \/ b = 0 THEN 0
    ELSE ((a % 2) * (b % 2)) + 2 * BitAnd(a \div 2, b \div 2)

RECURSIVE Pow2(_)
Pow2(k) == IF k = 0 THEN 1 ELSE 2 * Pow2(k - 1)

\* (v >> k) & 1
BitAt(v, k) == (v \div Pow2(k)) % 2

\* all sequences over S of length exactly n
RECURSIVE SeqsOfLen(_, _)
SeqsOfLen(S, n) ==
    IF n = 0 THEN {<<>>}
    ELSE {Append(s, e) : s \in SeqsOfLen(S, n - 1), e \in S}

\* ------------------------------------------------------------ conv_encode
\* one iteration of the loop: the new register and the two output bits
\* variant: a register of CONV_K - 1 bits
EncShiftShort(state, b) == ((state * 2) + (b % 2)) % CONV_STATES
EncShift(state, b) == ((state * 2) + (b % 2)) % (CONV_STATES * 2)
EncOut0(state) == popcount(BitAnd(state, CONV_G0)) % 2
\* variant: both output bits taken with CONV_G0
EncOut1Same(state) == popcount(BitAnd(state, CONV_G0)) % 2
EncOut1(state) == popcount(BitAnd(state, CONV_G1)) % 2

\* --------------------------------------------------------- viterbi_decode
\* variant: the cap one short of the survivor table
MaxLenOfShort(n_data) == IF n_data < PATH_ROWS - 1 THEN n_data ELSE PATH_ROWS - 1

\* int max_len = n_data < 256 ? n_data : 256;
MaxLenOf(n_data) == IF n_data < PATH_ROWS THEN n_data ELSE PATH_ROWS

\* variant: every state starts at metric 0
InitMetricsFlat == [s \in States |-> 0]
\* pm_old after the initialisation loop and pm_old[0] = 0
InitMetrics == [s \in States |-> IF s = 0 THEN 0 ELSE VITERBI_INF]

\* the received pair of time step t: coded[2t] & 1, coded[2t+1] & 1 for the
\* hard decoder, llr[2t], llr[2t+1] for the soft decoder
RecvPair(k, buf, t) ==
    IF k = "hard" THEN <<buf[2 * t + 1] % 2, buf[2 * t + 2] % 2>>
    ELSE <<buf[2 * t + 1], buf[2 * t + 2]>>

\* double bm = (e0 != r0) + (e1 != r1); metric = pm_old[s] + bm
HardMetric(pm, e0, e1, r) ==
    pm + ((IF e0 # r[1] THEN 1 ELSE 0) + (IF e1 # r[2] THEN 1 ELSE 0))

\* variant: the second LLR of the pair left out of the score
SoftMetricHalf(pm, e0, e1, l) ==
    pm - (IF e0 # 0 THEN -l[1] ELSE l[1])

\* variant: the agreement score added to the cost instead of subtracted
SoftMetricAdded(pm, e0, e1, l) ==
    pm + ((IF e0 # 0 THEN -l[1] ELSE l[1]) + (IF e1 # 0 THEN -l[2] ELSE l[2]))

\* double bm = (e0 ? -l0 : l0) + (e1 ? -l1 : l1); metric = pm_old[s] - bm
SoftMetric(pm, e0, e1, l) ==
    pm - ((IF e0 # 0 THEN -l[1] ELSE l[1]) + (IF e1 # 0 THEN -l[2] ELSE l[2]))

Metric(k, pm, e0, e1, r) ==
    IF k = "hard" THEN HardMetric(pm, e0, e1, r) ELSE SoftMetric(pm, e0, e1, r)

\* variant: the next state keeps all CONV_K bits
NextStateWide(s, bit) == ((s * 2) + bit) % (2 * CONV_STATES)
\* int ns = ((s << 1) | bit) & (CONV_STATES - 1)
NextState(s, bit) == ((s * 2) + bit) % CONV_STATES

\* unsigned int full_state = (s << 1) | bit, and the expected output pair
\* e0 = popcount(full_state & CONV_G0) & 1, e1 = popcount(full_state & CONV_G1) & 1
FullState(s, bit) == (s * 2) + bit
BranchE0(full_state) == popcount(BitAnd(full_state, CONV_G0)) % 2
BranchE1(full_state) == popcount(BitAnd(full_state, CONV_G1)) % 2

\* variant: a predecessor is expanded whatever its metric
AcsVisitAll(k, pm_old, r, s, bit, cell) ==
    LET full_state == FullState(s, bit)
        e0 == BranchE0(full_state)
        e1 == BranchE1(full_state)
        metric == Metric(k, pm_old[s], e0, e1, r)
    IN  IF metric < cell.pm
        THEN [pm |-> metric, prev |-> s, stores |-> cell.stores + 1]
        ELSE cell

\* variant: the later candidate replaces an equal earlier one
AcsVisitLast(k, pm_old, r, s, bit, cell) ==
    IF pm_old[s] >= VITERBI_INF THEN cell
    ELSE LET full_state == FullState(s, bit)
             e0 == BranchE0(full_state)
             e1 == BranchE1(full_state)
             metric == Metric(k, pm_old[s], e0, e1, r)
         IN  IF metric <= cell.pm
             THEN [pm |-> metric, prev |-> s, stores |-> cell.stores + 1]
             ELSE cell

\* the body of the (s, bit) loops for one iteration, on the one cell pair it
\* can write: cell.pm is pm_new[ns], cell.prev is path[t][ns], cell.stores
\* counts the stores to path[t][ns]
AcsVisit(k, pm_old, r, s, bit, cell) ==
    IF pm_old[s] >= VITERBI_INF THEN cell
    ELSE LET full_state == FullState(s, bit)
             e0 == BranchE0(full_state)
             e1 == BranchE1(full_state)
             metric == Metric(k, pm_old[s], e0, e1, r)
         IN  IF metric < cell.pm
             THEN [pm |-> metric, prev |-> s, stores |-> cell.stores + 1]
             ELSE cell

\* the iterations of for (s = 0 .. 63) for (bit = 0 .. 1), numbered 2 s + bit
\* in the order the code runs them, and those of them that address cell ns
AcsIters == 0 .. (2 * CONV_STATES - 1)
AcsItersOf == [ns \in States |->
                 {i \in AcsIters : NextState(i \div 2, i % 2) = ns}]

\* the iterations in I, lowest first, applied to the cell they address
RECURSIVE AcsLoop(_, _, _, _, _)
AcsLoop(k, pm_old, r, I, cell) ==
    IF I = {} THEN cell
    ELSE LET i == CHOOSE j \in I : \A m \in I : j <= m
         IN  AcsLoop(k, pm_old, r, I \ {i},
                     AcsVisit(k, pm_old, r, i \div 2, i % 2, cell))

\* one time step: every pm_new[ns] starts at VITERBI_INF and every
\* path[t][ns] unwritten; an iteration touches no cell but its own ns, so the
\* loop's effect on cell ns is that of its iterations AcsItersOf[ns] in order
AcsStep(k, pm_old, r) ==
    LET cells == [ns \in States |->
                    AcsLoop(k, pm_old, r, AcsItersOf[ns],
                            [pm |-> VITERBI_INF, prev |-> Uninit, stores |-> 0])]
    IN  [pm |-> [ns \in States |-> cells[ns].pm],
         row |-> [ns \in States |-> cells[ns].prev],
         stores |-> [ns \in States |-> cells[ns].stores]]

\* variant: the state of largest metric is kept
RECURSIVE BestLoopWorst(_, _, _)
BestLoopWorst(pm, s, best) ==
    IF s >= CONV_STATES THEN best
    ELSE IF pm[s] > pm[best] THEN BestLoopWorst(pm, s + 1, s)
    ELSE BestLoopWorst(pm, s + 1, best)

\* variant: a later state replaces an equal earlier one
RECURSIVE BestLoopLast(_, _, _)
BestLoopLast(pm, s, best) ==
    IF s >= CONV_STATES THEN best
    ELSE IF pm[s] <= pm[best] THEN BestLoopLast(pm, s + 1, s)
    ELSE BestLoopLast(pm, s + 1, best)

\* best_state = 0; for (s = 1 ..) if (pm_old[s] < pm_old[best_state]) ...
RECURSIVE BestLoop(_, _, _)
BestLoop(pm, s, best) ==
    IF s >= CONV_STATES THEN best
    ELSE IF pm[s] < pm[best] THEN BestLoop(pm, s + 1, s)
    ELSE BestLoop(pm, s + 1, best)

BestState(pm) == BestLoop(pm, 1, 0)

\* variant: the newest bit of the trellis state
DecodedBitLow(state) == BitAt(state, 0)
\* variant: the bit above the trellis state
DecodedBitHigh(state) == BitAt(state, CONV_K - 1)
\* decoded[t] = (state >> (CONV_K - 2)) & 1
DecodedBit(state) == BitAt(state, CONV_K - 2)

\* int prev = path[t][state]: an entry the forward pass never wrote is an
\* indeterminate int, any predecessor may come out of it
PathRead(path, t, state) ==
    IF t + 1 <= Len(path) /\ path[t + 1][state] # Uninit
    THEN {path[t + 1][state]}
    ELSE States

\* trail lists the values of state the traceback has written a bit for, in
\* time order; stores[t + 1][ns] counts the stores made to path[t][ns]
IdleDec == [pc |-> "idle", n_coded |-> 0, max_len |-> 0, t |-> 0,
            pm_old |-> <<>>, path |-> <<>>, state |-> 0,
            decoded |-> <<>>, ret |-> Uninit, trail |-> <<>>,
            stores |-> <<>>]

\* the buffer decoder k reads
InBuf(k) == IF k = "hard" THEN coded ELSE llr

\* variant: the half rounded up
NDataUp(n_coded) == (n_coded + 1) \div 2
\* int n_data = n_coded / 2: C division, which truncates toward zero
NData(n_coded) == IF n_coded >= 0 THEN n_coded \div 2 ELSE -((-n_coded) \div 2)

\* the cells of the caller's decoded array: n_coded / 2 of them, and one cell
\* where that is none
DecodedCells(n_coded) == IF NData(n_coded) < 1 THEN 1 ELSE NData(n_coded)

\* viterbi_decode(coded, n_coded, decoded) / viterbi_decode_soft(llr, n_coded,
\* decoded) from entry up to the first time step; no cell of the caller's
\* decoded array is written yet
ViterbiEnter(k, n_coded) ==
    /\ fec_pc = "ready"
    /\ dec[k].pc = "idle"
    /\ n_coded <= Len(InBuf(k))
    /\ LET n_data == NData(n_coded)
           out == [i \in 1 .. DecodedCells(n_coded) |-> Uninit]
       IN  IF n_data < 1
           THEN dec' = [dec EXCEPT ![k] = [IdleDec EXCEPT !.pc = "done",
                            !.n_coded = n_coded, !.decoded = out, !.ret = 0]]
           ELSE dec' = [dec EXCEPT ![k] = [IdleDec EXCEPT !.pc = "forward",
                            !.n_coded = n_coded, !.decoded = out,
                            !.max_len = MaxLenOf(n_data),
                            !.pm_old = InitMetrics]]
    /\ UNCHANGED <<x, coded, flipped, llr, fec_pc, enc, kept>>
    /\ UNCHANGED <<calls, itlVars, hamVars>>

\* the sequential caller: the soft decode is called after the hard decode
\* has returned
ViterbiCall(k, n_coded) ==
    /\ k = "soft" => dec["hard"].pc = "done"
    /\ ViterbiEnter(k, n_coded)

\* variant: pm_old is one array shared by all the calls in progress
ViterbiForwardShared(k) ==
    /\ dec[k].pc = "forward"
    /\ dec[k].t < dec[k].max_len
    /\ LET acc == AcsStep(k, dec[k].pm_old, RecvPair(k, InBuf(k), dec[k].t))
       IN  dec' = [j \in Kinds |->
                    IF j = k
                    THEN [dec[j] EXCEPT !.pm_old = acc.pm,
                                        !.path = Append(@, acc.row),
                                        !.stores = Append(@, acc.stores),
                                        !.t = @ + 1]
                    ELSE IF dec[j].pc = "forward"
                         THEN [dec[j] EXCEPT !.pm_old = acc.pm]
                         ELSE dec[j]]
    /\ UNCHANGED <<x, coded, flipped, llr, fec_pc, enc, kept>>
    /\ UNCHANGED <<calls, itlVars, hamVars>>

\* one iteration of the forward loop over t, memcpy(pm_old, pm_new) included
ViterbiForward(k) ==
    /\ dec[k].pc = "forward"
    /\ dec[k].t < dec[k].max_len
    /\ LET acc == AcsStep(k, dec[k].pm_old, RecvPair(k, InBuf(k), dec[k].t))
       IN  dec' = [dec EXCEPT ![k].pm_old = acc.pm,
                              ![k].path = Append(@, acc.row),
                              ![k].stores = Append(@, acc.stores),
                              ![k].t = @ + 1]
    /\ UNCHANGED <<x, coded, flipped, llr, fec_pc, enc, kept>>
    /\ UNCHANGED <<calls, itlVars, hamVars>>

\* forward loop exit: pick best_state, set up the traceback loop
ViterbiSelect(k) ==
    /\ dec[k].pc = "forward"
    /\ dec[k].t >= dec[k].max_len
    /\ dec' = [dec EXCEPT ![k].pc = "traceback",
                          ![k].state = BestState(dec[k].pm_old),
                          ![k].t = dec[k].max_len - 1]
    /\ UNCHANGED <<x, coded, flipped, llr, fec_pc, enc, kept>>
    /\ UNCHANGED <<calls, itlVars, hamVars>>

\* variant: the traceback clears the survivor entry it has read
ViterbiTracebackClears(k) ==
    /\ dec[k].pc = "traceback"
    /\ dec[k].t >= 0
    /\ \E prev \in PathRead(dec[k].path, dec[k].t, dec[k].state) :
         dec' = [dec EXCEPT
                   ![k].decoded = [@ EXCEPT ![dec[k].t + 1] =
                                       DecodedBit(dec[k].state)],
                   ![k].path = [@ EXCEPT ![dec[k].t + 1][dec[k].state] = 0],
                   ![k].state = prev,
                   ![k].trail = <<dec[k].state>> \o @,
                   ![k].t = @ - 1]
    /\ UNCHANGED <<x, coded, flipped, llr, fec_pc, enc, kept>>
    /\ UNCHANGED <<calls, itlVars, hamVars>>

\* one iteration of the traceback loop
ViterbiTraceback(k) ==
    /\ dec[k].pc = "traceback"
    /\ dec[k].t >= 0
    /\ \E prev \in PathRead(dec[k].path, dec[k].t, dec[k].state) :
         dec' = [dec EXCEPT
                   ![k].decoded = [@ EXCEPT ![dec[k].t + 1] =
                                       DecodedBit(dec[k].state)],
                   ![k].state = prev,
                   ![k].trail = <<dec[k].state>> \o @,
                   ![k].t = @ - 1]
    /\ UNCHANGED <<x, coded, flipped, llr, fec_pc, enc, kept>>
    /\ UNCHANGED <<calls, itlVars, hamVars>>

\* return max_len
ViterbiReturn(k) ==
    /\ dec[k].pc = "traceback"
    /\ dec[k].t < 0
    /\ dec' = [dec EXCEPT ![k].pc = "done", ![k].ret = dec[k].max_len]
    /\ UNCHANGED <<x, coded, flipped, llr, fec_pc, enc, kept>>
    /\ UNCHANGED <<calls, itlVars, hamVars>>

\* the forward loop of one call run from t to max_len on its own:
\* acc = [pm |-> pm_old, path |-> the rows written so far]
RECURSIVE ForwardAlone(_, _, _, _, _)
ForwardAlone(k, buf, max_len, t, acc) ==
    IF t >= max_len THEN acc
    ELSE LET a == AcsStep(k, acc.pm, RecvPair(k, buf, t))
         IN  ForwardAlone(k, buf, max_len, t + 1,
                          [pm |-> a.pm, path |-> Append(acc.path, a.row)])

\* the traceback loop of one call run from t down to 0 on its own
RECURSIVE TracebackAlone(_, _, _, _)
TracebackAlone(path, t, state, decoded) ==
    IF t < 0 THEN decoded
    ELSE LET prev == CHOOSE p \in PathRead(path, t, state) : TRUE
         IN  TracebackAlone(path, t - 1, prev,
                            [decoded EXCEPT ![t + 1] = DecodedBit(state)])

\* viterbi_decode (k = "hard") / viterbi_decode_soft (k = "soft") as one call
\* run from entry to return with no other call in progress
ViterbiAlone(k, buf, n_coded) ==
    LET n_data == NData(n_coded)
        out == [i \in 1 .. DecodedCells(n_coded) |-> Uninit]
        max_len == MaxLenOf(n_data)
        fwd == ForwardAlone(k, buf, max_len, 0, [pm |-> InitMetrics, path |-> <<>>])
    IN  IF n_data < 1 THEN [decoded |-> out, ret |-> 0]
        ELSE [decoded |-> TracebackAlone(fwd.path, max_len - 1,
                                         BestState(fwd.pm), out),
              ret |-> max_len]

\* the n_coded the caller passes: the whole buffer on the first calls, its
\* first 2 * 256 elements on the calls after KeepOutputs
CallLen == IF kept = <<>> THEN Len(coded) ELSE 2 * PATH_ROWS

\* the caller keeps both decoders' outputs of a buffer longer than 2 * 256 and
\* gets ready to decode the buffer's first 2 * 256 elements alone
KeepOutputs ==
    /\ fec_pc = "ready"
    /\ kept = <<>>
    /\ \A k \in Kinds : dec[k].pc = "done"
    /\ Len(coded) > 2 * PATH_ROWS
    /\ kept' = [k \in Kinds |-> [decoded |-> dec[k].decoded, ret |-> dec[k].ret,
                                 n_coded |-> dec[k].n_coded]]
    /\ dec' = [k \in Kinds |-> IdleDec]
    /\ UNCHANGED <<x, coded, flipped, llr, fec_pc, enc>>
    /\ UNCHANGED <<calls, itlVars, hamVars>>

\* ------------------------------------------------------- the codec caller
\* conv_encode(in, n, out) as one call: the loop from index i with register
\* state, out holding out[0 .. 2i-1]
RECURSIVE EncLoop(_, _, _, _)
EncLoop(in, i, state, out) ==
    IF i >= Len(in) THEN out
    ELSE LET st == EncShift(state, in[i + 1])
         IN  EncLoop(in, i + 1, st, Append(Append(out, EncOut0(st)), EncOut1(st)))

conv_encode(in) == EncLoop(in, 0, 0, <<>>)

\* variant: the register is kept from the previous call
EncodeCallKeep ==
    /\ fec_pc = "start"
    /\ enc' = [i |-> 0, state |-> enc.state]
    /\ coded' = <<>>
    /\ fec_pc' = "encoding"
    /\ UNCHANGED <<x, flipped, llr, dec, kept>>
    /\ UNCHANGED <<calls, itlVars, hamVars>>

\* conv_encode(x, n, coded) is entered: unsigned int state = 0
EncodeCall ==
    /\ fec_pc = "start"
    /\ enc' = [i |-> 0, state |-> 0]
    /\ coded' = <<>>
    /\ fec_pc' = "encoding"
    /\ UNCHANGED <<x, flipped, llr, dec, kept>>
    /\ UNCHANGED <<calls, itlVars, hamVars>>

\* one iteration of conv_encode's loop: shift in[i] in, write out[2i], out[2i+1]
EncodeStep ==
    /\ fec_pc = "encoding"
    /\ enc.i < Len(x)
    /\ LET st == EncShift(enc.state, x[enc.i + 1])
       IN  /\ enc' = [i |-> enc.i + 1, state |-> st]
           /\ coded' = Append(Append(coded, EncOut0(st)), EncOut1(st))
    /\ UNCHANGED <<x, flipped, llr, fec_pc, dec, kept>>
    /\ UNCHANGED <<calls, itlVars, hamVars>>

\* conv_encode returns
EncodeReturn ==
    /\ fec_pc = "encoding"
    /\ enc.i >= Len(x)
    /\ fec_pc' = "encoded"
    /\ UNCHANGED <<x, coded, flipped, llr, enc, dec, kept>>
    /\ UNCHANGED <<calls, itlVars, hamVars>>

\* noiseless channel: the received bits are the coded bits
Transmit ==
    /\ fec_pc = "encoded"
    /\ fec_pc' = "received"
    /\ UNCHANGED <<x, coded, flipped, llr, enc, dec, kept>>
    /\ UNCHANGED <<calls, itlVars, hamVars>>

\* the channel inverts the coded bit at C index p
FlipBit(p) ==
    /\ fec_pc = "encoded"
    /\ p \in 0 .. (Len(coded) - 1)
    /\ coded' = [coded EXCEPT ![p + 1] = 1 - @]
    /\ flipped' = p
    /\ fec_pc' = "received"
    /\ UNCHANGED <<x, llr, enc, dec, kept>>
    /\ UNCHANGED <<calls, itlVars, hamVars>>

\* unambiguous soft input: +10 where the hard bit is 0, -10 where it is 1
Demap ==
    /\ fec_pc = "received"
    /\ llr' = [i \in 1 .. Len(coded) |-> IF coded[i] = 0 THEN 10 ELSE -10]
    /\ fec_pc' = "ready"
    /\ UNCHANGED <<x, coded, flipped, enc, dec, kept>>
    /\ UNCHANGED <<calls, itlVars, hamVars>>

\* all calls of a round have returned: the caller starts another round of
\* calls on the data word w, in the same arrays
NextRound(w) ==
    /\ fec_pc = "ready"
    /\ calls = <<>>
    /\ kept = <<>>
    /\ \A k \in Kinds : dec[k].pc = "done"
    /\ calls' = Append(calls, x)
    /\ x' = w
    /\ flipped' = -1
    /\ fec_pc' = "start"
    /\ dec' = [k \in Kinds |-> [dec[k] EXCEPT !.pc = "idle"]]
    /\ UNCHANGED <<coded, llr, enc, kept>>
    /\ UNCHANGED <<itlVars, hamVars>>

\* ------------------------------------------------------------ interleaver
\* malloc(size * sizeof(int)): a fresh block of size unwritten ints, or NULL
\* when ok is FALSE; h is the heap so far
MallocPtr(h, ok) == IF ok THEN Len(h) + 1 ELSE NULL
MallocHeap(h, size, ok) ==
    IF ok THEN Append(h, [i \in 1 .. size |-> Uninit]) ELSE h

\* free(ptr): counts the release of the block, free(NULL) does nothing
FreeBlock(f, ptr) == IF ptr = NULL THEN f ELSE [f EXCEPT ![ptr] = @ + 1]

\* variant: the read index taken row-major
ReadIdxRowMajor(rows, cols, r, c) == r * cols + c

\* int read_idx = c * rows + r
ReadIdx(rows, cols, r, c) == c * rows + r
\* variant: the write index with rows for cols
WriteIdxSwapped(rows, cols, r, c) == r * rows + c

\* int write_idx = r * cols + c
WriteIdx(rows, cols, r, c) == r * cols + c

Max(S) == CHOOSE m \in S : \A e \in S : e <= m

\* the fill loops for (r ..) for (c ..), iterations numbered j = r * cols + c
\* in the order they run: perm[write_idx] = read_idx; inv[read_idx] = write_idx.
\* No store reads a table, so a cell ends with the value of the last iteration
\* that stored to it and a cell no iteration addresses keeps its content.
FillIters(rows, cols) == 0 .. (rows * cols - 1)
FillWrite(rows, cols, j) == WriteIdx(rows, cols, j \div cols, j % cols)
FillRead(rows, cols, j) == ReadIdx(rows, cols, j \div cols, j % cols)

FillLoop(rows, cols, tabs) ==
    [perm |-> [w \in 1 .. Len(tabs.perm) |->
                 LET J == {j \in FillIters(rows, cols) :
                              FillWrite(rows, cols, j) = w - 1}
                 IN  IF J = {} THEN tabs.perm[w]
                     ELSE FillRead(rows, cols, Max(J))],
     inv |-> [w \in 1 .. Len(tabs.inv) |->
                 LET J == {j \in FillIters(rows, cols) :
                              FillRead(rows, cols, j) = w - 1}
                 IN  IF J = {} THEN tabs.inv[w]
                     ELSE FillWrite(rows, cols, Max(J))]]

\* interleaver_init(&itl, rows, cols); permOk / invOk: whether each malloc
\* succeeds
InterleaverInit(rows, cols, permOk, invOk) ==
    /\ itl_pc = "none"
    /\ LET size == rows * cols
           p == MallocPtr(heap, permOk)
           h1 == MallocHeap(heap, size, permOk)
           q == MallocPtr(h1, invOk)
           h2 == MallocHeap(h1, size, invOk)
           f2 == [b \in 1 .. Len(h2) |-> IF b <= Len(freed) THEN freed[b] ELSE 0]
       IN  /\ itl' = [rows |-> rows, cols |-> cols, perm |-> p, inv |-> q]
           /\ freed' = f2
           /\ IF p = NULL \/ q = NULL
              THEN /\ heap' = h2
                   /\ itl_ret' = -1
                   /\ itl_pc' = "failed"
              ELSE LET tabs == FillLoop(rows, cols,
                                        [perm |-> h2[p], inv |-> h2[q]])
                   IN  /\ heap' = [h2 EXCEPT ![p] = tabs.perm, ![q] = tabs.inv]
                       /\ itl_ret' = 0
                       /\ itl_pc' = "ready"
    /\ UNCHANGED <<data, tx, rx, rec, n_arg, burst, oob, wrote>>
    /\ UNCHANGED <<fecVars, hamVars, job>>

\* variant: the pointers are left as they were
InterleaverFreeDangling ==
    /\ itl_pc \in {"ready", "deapplied", "failed", "freed"}
    /\ freed' = FreeBlock(FreeBlock(freed, itl.perm), itl.inv)
    /\ itl' = itl
    /\ itl_pc' = "freed"
    /\ UNCHANGED <<heap, itl_ret, data, tx, rx, rec, n_arg, burst, oob, wrote>>
    /\ UNCHANGED <<fecVars, hamVars, job>>

\* interleaver_free(&itl)
InterleaverFree ==
    /\ itl_pc \in {"ready", "deapplied", "failed", "freed"}
    /\ freed' = FreeBlock(FreeBlock(freed, itl.perm), itl.inv)
    /\ itl' = [itl EXCEPT !.perm = NULL, !.inv = NULL]
    /\ itl_pc' = "freed"
    /\ UNCHANGED <<heap, itl_ret, data, tx, rx, rec, n_arg, burst, oob, wrote>>
    /\ UNCHANGED <<fecVars, hamVars, job>>

\* for (i = 0; i < n && i < size; i++) out[tab[i]] = in[i], on an out array
\* of cap unwritten cells.  A cell ends with the value of the last iteration
\* that stored to it; a store outside the cap cells is recorded in oob.
PermuteIters(size, n) == {i \in 0 .. (n - 1) : i < size}

\* variant: the cells no iteration stores to are copied from in
PermutePassThrough(tab, in, n, cap) ==
    LET I == PermuteIters(itl.rows * itl.cols, n)
        targets == {tab[i + 1] : i \in I}
    IN  [out |-> [w \in 1 .. cap |->
                    LET J == {i \in I : tab[i + 1] = w - 1}
                    IN  IF J = {} THEN in[w] ELSE in[Max(J) + 1]],
         oob |-> {w \in targets : w < 0 \/ w >= cap},
         wrote |-> targets \cup {w \in 0 .. (cap - 1) : w >= itl.rows * itl.cols}]

Permute(tab, in, n, cap) ==
    LET I == PermuteIters(itl.rows * itl.cols, n)
        targets == {tab[i + 1] : i \in I}
    IN  [out |-> [w \in 1 .. cap |->
                    LET J == {i \in I : tab[i + 1] = w - 1}
                    IN  IF J = {} THEN Uninit ELSE in[Max(J) + 1]],
         oob |-> {w \in targets : w < 0 \/ w >= cap},
         wrote |-> targets]

\* itl->perm as interleaver_apply indexes it, itl->inv as interleaver_deapply
ApplyTable == heap[itl.perm]
\* variant: deapply indexing perm
DeapplyTablePerm == heap[itl.perm]
DeapplyTable == heap[itl.inv]

\* interleaver_apply(&itl, data, tx, n) with in and out arrays of n cells each
InterleaverApply(d, n) ==
    /\ itl_pc = "ready"
    /\ Len(d) = n
    /\ LET st == Permute(ApplyTable, d, n, n)
       IN  /\ tx' = st.out
           /\ oob' = st.oob
           /\ wrote' = st.wrote
           /\ itl_pc' = IF st.oob = {} THEN "applied" ELSE "overrun"
    /\ data' = d
    /\ n_arg' = n
    /\ UNCHANGED <<itl, heap, freed, itl_ret, rx, rec, burst>>
    /\ UNCHANGED <<fecVars, hamVars, job>>

\* corrupted[i] ^= 1 on one cell
Corrupt(v) == IF v = Uninit THEN Uninit ELSE IF v % 2 = 0 THEN v + 1 ELSE v - 1

\* the channel inverts the L consecutive interleaved cells from C index start
Burst(start, L) ==
    /\ itl_pc = "applied"
    /\ start >= 0 /\ L >= 1 /\ start + L <= n_arg
    /\ rx' = [i \in 1 .. n_arg |->
                IF start <= i - 1 /\ i - 1 < start + L THEN Corrupt(tx[i])
                ELSE tx[i]]
    /\ burst' = <<start, L>>
    /\ itl_pc' = "received"
    /\ UNCHANGED <<itl, heap, freed, itl_ret, data, tx, rec, n_arg, oob, wrote>>
    /\ UNCHANGED <<fecVars, hamVars, job>>

\* the channel delivers the interleaved cells as sent
Deliver ==
    /\ itl_pc = "applied"
    /\ rx' = tx
    /\ itl_pc' = "received"
    /\ UNCHANGED <<itl, heap, freed, itl_ret, data, tx, rec, n_arg, burst, oob,
                   wrote>>
    /\ UNCHANGED <<fecVars, hamVars, job>>

\* interleaver_deapply(&itl, rx, rec, n) with in and out arrays of n cells each
InterleaverDeapply ==
    /\ itl_pc = "received"
    /\ LET st == Permute(DeapplyTable, rx, n_arg, n_arg)
       IN  /\ rec' = st.out
           /\ oob' = st.oob
           /\ wrote' = st.wrote
           /\ itl_pc' = IF st.oob = {} THEN "deapplied" ELSE "overrun"
    /\ UNCHANGED <<itl, heap, freed, itl_ret, data, tx, rx, n_arg, burst>>
    /\ UNCHANGED <<fecVars, hamVars, job>>

\* an interleaver_apply(&itl, data, tx, n) and an interleaver_deapply(&itl, rx,
\* rec, n) call are entered together on the shared itl, n = rows * cols, each
\* with its own in array and its own out array of n unwritten cells
ShareStart(d, r) ==
    /\ itl_pc = "ready"
    /\ Len(d) = itl.rows * itl.cols
    /\ Len(r) = itl.rows * itl.cols
    /\ data' = d
    /\ rx' = r
    /\ tx' = [i \in 1 .. Len(d) |-> Uninit]
    /\ rec' = [i \in 1 .. Len(r) |-> Uninit]
    /\ n_arg' = Len(d)
    /\ job' = [a |-> 0, d |-> 0]
    /\ oob' = {}
    /\ wrote' = {}
    /\ itl_pc' = "sharing"
    /\ UNCHANGED <<itl, heap, freed, itl_ret, burst>>
    /\ UNCHANGED <<fecVars, hamVars>>

\* variant: apply marks the table entry it has used
ApplyIterConsumes ==
    /\ itl_pc = "sharing"
    /\ job.a < n_arg /\ job.a < itl.rows * itl.cols
    /\ tx' = [tx EXCEPT ![heap[itl.perm][job.a + 1] + 1] = data[job.a + 1]]
    /\ heap' = [heap EXCEPT ![itl.perm][job.a + 1] = Uninit]
    /\ job' = [job EXCEPT !.a = @ + 1]
    /\ UNCHANGED <<itl, freed, itl_pc, itl_ret, data, rx, rec, n_arg, burst,
                   oob, wrote>>
    /\ UNCHANGED <<fecVars, hamVars>>

\* one iteration of interleaver_apply's loop: out[itl->perm[i]] = in[i]
ApplyIter ==
    /\ itl_pc = "sharing"
    /\ job.a < n_arg /\ job.a < itl.rows * itl.cols
    /\ tx' = [tx EXCEPT ![heap[itl.perm][job.a + 1] + 1] = data[job.a + 1]]
    /\ job' = [job EXCEPT !.a = @ + 1]
    /\ UNCHANGED <<itl, heap, freed, itl_pc, itl_ret, data, rx, rec, n_arg,
                   burst, oob, wrote>>
    /\ UNCHANGED <<fecVars, hamVars>>

\* one iteration of interleaver_deapply's loop: out[itl->inv[i]] = in[i]
DeapplyIter ==
    /\ itl_pc = "sharing"
    /\ job.d < n_arg /\ job.d < itl.rows * itl.cols
    /\ rec' = [rec EXCEPT ![heap[itl.inv][job.d + 1] + 1] = rx[job.d + 1]]
    /\ job' = [job EXCEPT !.d = @ + 1]
    /\ UNCHANGED <<itl, heap, freed, itl_pc, itl_ret, data, tx, rx, n_arg,
                   burst, oob, wrote>>
    /\ UNCHANGED <<fecVars, hamVars>>

\* both loops have ended and both calls return
ShareJoin ==
    /\ itl_pc = "sharing"
    /\ ~(job.a < n_arg /\ job.a < itl.rows * itl.cols)
    /\ ~(job.d < n_arg /\ job.d < itl.rows * itl.cols)
    /\ itl_pc' = "ready"
    /\ UNCHANGED <<itl, heap, freed, itl_ret, data, tx, rx, rec, n_arg, burst,
                   oob, wrote, job>>
    /\ UNCHANGED <<fecVars, hamVars>>

\* chapters/12-interleaving/demo.c: 8 x 6 block, 48 cells, a burst of 6
DEMO_ROWS == 8
DEMO_COLS == 6
DATA_LEN == 48
DEMO_BURST == 6
IsDemo == itl.rows = DEMO_ROWS /\ itl.cols = DEMO_COLS

\* payloads of n cells: all zero, a single one, or the cell's own index
Payloads(n) ==
    {[i \in 1 .. n |-> IF i = j THEN 1 ELSE 0] : j \in 0 .. n}
        \cup {[i \in 1 .. n |-> (i - 1) % 256]}

\* the interleaver caller's choices of block shape, length and burst
Shapes == ((1 .. MaxRows) \X (1 .. MaxCols)) \cup {<<DEMO_ROWS, DEMO_COLS>>}
Lengths == IF IsDemo THEN {DATA_LEN} ELSE 0 .. (itl.rows * itl.cols + 1)
BurstLens == IF IsDemo THEN {DEMO_BURST} ELSE 1 .. n_arg

\* ------------------------------------------------------------ Hamming(7,4)
\* generator matrix rows (systematic: [I4 | P])
hamming_G == << <<1, 0, 0, 0, 1, 1, 0>>,
                <<0, 1, 0, 0, 0, 1, 1>>,
                <<0, 0, 1, 0, 1, 1, 1>>,
                <<0, 0, 0, 1, 1, 0, 1>> >>

\* parity check matrix
hamming_H == << <<1, 0, 1, 1, 1, 0, 0>>,
                <<1, 1, 1, 0, 0, 1, 0>>,
                <<0, 1, 1, 1, 0, 0, 1>> >>

\* code7[j] ^= (data4[i] & 1) & hamming_G[i][j], i = 0 .. 3
hamming74_encode(data4) ==
    [j \in 1 .. 7 |->
        (  (data4[1] % 2) * hamming_G[1][j] + (data4[2] % 2) * hamming_G[2][j]
         + (data4[3] % 2) * hamming_G[3][j] + (data4[4] % 2) * hamming_G[4][j]) % 2]

\* syndrome[i] ^= (code7[j] & 1) & hamming_H[i][j], j = 0 .. 6
Syndrome(code7) ==
    [i \in 1 .. 3 |->
        (  (code7[1] % 2) * hamming_H[i][1] + (code7[2] % 2) * hamming_H[i][2]
         + (code7[3] % 2) * hamming_H[i][3] + (code7[4] % 2) * hamming_H[i][4]
         + (code7[5] % 2) * hamming_H[i][5] + (code7[6] % 2) * hamming_H[i][6]
         + (code7[7] % 2) * hamming_H[i][7]) % 2]

\* variant: syndrome[0] taken as the low bit
SynValReversed(syndrome) == syndrome[1] + 2 * syndrome[2] + 4 * syndrome[3]
\* syn_val = (syndrome[0] << 2) | (syndrome[1] << 1) | syndrome[2]
SynVal(syndrome) == 4 * syndrome[1] + 2 * syndrome[2] + syndrome[3]

\* col = (hamming_H[0][j] << 2) | (hamming_H[1][j] << 1) | hamming_H[2][j]
ColVal(j) == 4 * hamming_H[1][j + 1] + 2 * hamming_H[2][j + 1] + hamming_H[3][j + 1]

\* error_pos = -1; if (syn_val != 0) the first j with col == syn_val
ErrorPos(syn_val) ==
    LET J == {j \in 0 .. 6 : ColVal(j) = syn_val}
    IN  IF syn_val = 0 \/ J = {} THEN -1
        ELSE CHOOSE j \in J : \A i \in J : j <= i

\* hamming74_decode(code7, data4): the data4 written and the value returned
hamming74_decode(code7) ==
    LET error_pos == ErrorPos(SynVal(Syndrome(code7)))
        corrected == [j \in 1 .. 7 |->
                         IF j = error_pos + 1 THEN 1 - code7[j] ELSE code7[j]]
    IN  [data4 |-> [i \in 1 .. 4 |-> corrected[i]], ret |-> error_pos]

HamOff == [pc |-> "off", data4 |-> <<>>, code7 |-> <<>>, flip |-> -1,
           out4 |-> <<>>, ret |-> Uninit]

HamIdle == ham = HamOff

\* hamming74_encode(data, coded)
HammingEncode ==
    /\ ham.pc = "start"
    /\ ham' = [ham EXCEPT !.pc = "encoded", !.code7 = hamming74_encode(ham.data4)]
    /\ UNCHANGED <<fecVars, itlVars>>

\* the codeword is handed to the decoder as it is
HammingKeep ==
    /\ ham.pc = "encoded"
    /\ ham' = [ham EXCEPT !.pc = "received"]
    /\ UNCHANGED <<fecVars, itlVars>>

\* coded[p] ^= 1
HammingFlip(p) ==
    /\ ham.pc = "encoded"
    /\ ham' = [ham EXCEPT !.pc = "received", !.flip = p,
                          !.code7 = [@ EXCEPT ![p + 1] = 1 - @]]
    /\ UNCHANGED <<fecVars, itlVars>>

\* corrected = hamming74_decode(coded, decoded)
HammingDecode ==
    /\ ham.pc = "received"
    /\ LET r == hamming74_decode(ham.code7)
       IN  ham' = [ham EXCEPT !.pc = "done", !.out4 = r.data4, !.ret = r.ret]
    /\ UNCHANGED <<fecVars, itlVars>>

Bits == {0, 1}
ShortWords == UNION {SeqsOfLen(Bits, n) : n \in 1 .. MaxLen}

\* long data words: the patterns of period 2 and 3 of 256+1 .. 256+MaxOver bits
LongWords ==
    {[i \in 1 .. (PATH_ROWS + d) |-> IF (i - 1) % p = 0 THEN 1 ELSE 0] :
        d \in 1 .. MaxOver, p \in 2 .. 3}

ItlIdle ==
    /\ itl = [rows |-> Uninit, cols |-> Uninit, perm |-> Uninit, inv |-> Uninit]
    /\ heap = <<>>
    /\ freed = <<>>
    /\ itl_pc = "none"
    /\ itl_ret = Uninit
    /\ data = <<>>
    /\ tx = <<>>
    /\ rx = <<>>
    /\ rec = <<>>
    /\ n_arg = 0
    /\ burst = <<0, 0>>
    /\ oob = {}
    /\ wrote = {}
    /\ job = [a |-> 0, d |-> 0]

FecInit(Words) ==
    /\ x \in Words
    /\ coded = <<>>
    /\ flipped = -1
    /\ llr = <<>>
    /\ fec_pc = "start"
    /\ enc = [i |-> 0, state |-> 0]
    /\ dec = [k \in Kinds |-> IdleDec]
    /\ kept = <<>>
    /\ calls = <<>>

Init == FecInit(ShortWords) /\ ItlIdle /\ HamIdle

Decoder(k) ==
    \/ ViterbiCall(k, CallLen)
    \/ ViterbiForward(k)
    \/ ViterbiSelect(k)
    \/ ViterbiTraceback(k)
    \/ ViterbiReturn(k)

Next ==
    \/ EncodeCall
    \/ EncodeStep
    \/ EncodeReturn
    \/ Transmit
    \/ \E p \in 0 .. (2 * MaxLen - 1) : FlipBit(p)
    \/ Demap
    \/ \E k \in Kinds : Decoder(k)

Spec == Init /\ [][Next]_vars

FecIdle ==
    /\ x = <<>>
    /\ coded = <<>>
    /\ flipped = -1
    /\ llr = <<>>
    /\ fec_pc = "off"
    /\ enc = [i |-> 0, state |-> 0]
    /\ dec = [k \in Kinds |-> IdleDec]
    /\ kept = <<>>
    /\ calls = <<>>

\* the interleaver and its caller
ItlInit == FecIdle /\ ItlIdle /\ HamIdle

ItlNext ==
    \/ \E sh \in Shapes, permOk \in BOOLEAN, invOk \in BOOLEAN :
          InterleaverInit(sh[1], sh[2], permOk, invOk)
    \/ \E n \in Lengths : \E d \in Payloads(n) : InterleaverApply(d, n)
    \/ \E start \in 0 .. (n_arg - 1), L \in BurstLens : Burst(start, L)
    \/ Deliver
    \/ InterleaverDeapply
    \/ InterleaverFree

SpecItl == ItlInit /\ [][ItlNext]_vars

\* long data words over a noiseless channel
LongInit == FecInit(LongWords) /\ ItlIdle /\ HamIdle

LongNext ==
    \/ KeepOutputs
    \/ EncodeCall
    \/ EncodeStep
    \/ EncodeReturn
    \/ Transmit
    \/ Demap
    \/ \E k \in Kinds : Decoder(k)

SpecLong == LongInit /\ [][LongNext]_vars

\* conv_encode alone, on every data word of 0 .. MaxEncLen bits
EncWords == UNION {SeqsOfLen(Bits, n) : n \in 0 .. MaxEncLen}

EncInit == FecInit(EncWords) /\ ItlIdle /\ HamIdle

EncNext ==
    \/ EncodeCall
    \/ EncodeStep
    \/ EncodeReturn

SpecEnc == EncInit /\ [][EncNext]_vars

\* two decoder calls in progress at once, their steps interleaved freely
CallWords == UNION {SeqsOfLen(Bits, n) : n \in 1 .. MaxCallLen}

ConcInit == FecInit(CallWords) /\ ItlIdle /\ HamIdle

ConcDecoder(k) ==
    \/ ViterbiEnter(k, Len(InBuf(k)))
    \/ ViterbiForward(k)
    \/ ViterbiSelect(k)
    \/ ViterbiTraceback(k)
    \/ ViterbiReturn(k)

ConcNext ==
    \/ EncodeCall
    \/ EncodeStep
    \/ EncodeReturn
    \/ Transmit
    \/ \E p \in 0 .. (2 * MaxCallLen - 1) : FlipBit(p)
    \/ Demap
    \/ \E k \in Kinds : ConcDecoder(k)

SpecConc == ConcInit /\ [][ConcNext]_vars

\* the Hamming(7,4) code on every 4-bit data word, with no or one flipped bit
HamInit ==
    /\ FecIdle /\ ItlIdle
    /\ \E d \in SeqsOfLen(Bits, 4) : ham = [HamOff EXCEPT !.pc = "start", !.data4 = d]

HamNext ==
    \/ HammingEncode
    \/ HammingKeep
    \/ \E p \in 0 .. 6 : HammingFlip(p)
    \/ HammingDecode

SpecHam == HamInit /\ [][HamNext]_vars

\* two rounds of conv_encode, viterbi_decode, viterbi_decode_soft calls
SeqInit == FecInit(CallWords) /\ ItlIdle /\ HamIdle

SeqNext ==
    \/ EncodeCall
    \/ EncodeStep
    \/ EncodeReturn
    \/ Transmit
    \/ Demap
    \/ \E k \in Kinds : Decoder(k)
    \/ \E w \in CallWords : NextRound(w)

SpecSeq == SeqInit /\ [][SeqNext]_vars

\* the test's run: 64 data bits, conv_encode, noiseless, viterbi_decode; the
\* word of period 2 is the test's bits[i] = i & 1
TEST_BITS == 64
TestWords ==
    {[i \in 1 .. TEST_BITS |-> IF (i - 1) % p = 1 THEN 1 ELSE 0] : p \in 2 .. MaxPeriod}

TestInit == FecInit(TestWords) /\ ItlIdle /\ HamIdle

TestNext ==
    \/ EncodeCall
    \/ EncodeStep
    \/ EncodeReturn
    \/ Transmit
    \/ Demap
    \/ Decoder("hard")

SpecTest == TestInit /\ [][TestNext]_vars

\* the decoders on received words that need not be codewords: every seed of
\* SeedLen bits repeated up to 2 n bits, n = 1 .. MaxRecvLen
RecvWords ==
    {[i \in 1 .. (2 * n) |-> seed[((i - 1) % SeedLen) + 1]] :
        n \in 1 .. MaxRecvLen, seed \in SeqsOfLen(Bits, SeedLen)}

RecvInit ==
    /\ x = <<>>
    /\ coded \in RecvWords
    /\ flipped = -1
    /\ llr = <<>>
    /\ fec_pc = "received"
    /\ enc = [i |-> 0, state |-> 0]
    /\ dec = [k \in Kinds |-> IdleDec]
    /\ kept = <<>>
    /\ calls = <<>>
    /\ ItlIdle /\ HamIdle

RecvNext ==
    \/ Demap
    \/ \E k \in Kinds : Decoder(k)

SpecRecv == RecvInit /\ [][RecvNext]_vars

\* viterbi_decode_soft on graded LLRs: every sequence of one or two pairs of
\* LLRs in -MaxLlr .. MaxLlr, 0 (no information) included
LlrWords == UNION {SeqsOfLen((-MaxLlr) .. MaxLlr, 2 * n) : n \in 1 .. 2}

SoftInit ==
    /\ x = <<>>
    /\ coded = <<>>
    /\ flipped = -1
    /\ llr \in LlrWords
    /\ fec_pc = "ready"
    /\ enc = [i |-> 0, state |-> 0]
    /\ dec = [k \in Kinds |-> IdleDec]
    /\ kept = <<>>
    /\ calls = <<>>
    /\ ItlIdle /\ HamIdle

SoftNext == ConcDecoder("soft")

SpecSoft == SoftInit /\ [][SoftNext]_vars

\* one interleaver shared by apply and deapply calls in progress together,
\* round after round
ShareShapes == (1 .. MaxRows) \X (1 .. MaxCols)

ShareNext ==
    \/ \E sh \in ShareShapes, permOk \in BOOLEAN, invOk \in BOOLEAN :
          InterleaverInit(sh[1], sh[2], permOk, invOk)
    \/ \E d \in Payloads(itl.rows * itl.cols), r \in Payloads(itl.rows * itl.cols) :
          ShareStart(d, r)
    \/ ApplyIter
    \/ DeapplyIter
    \/ ShareJoin
    \/ InterleaverFree

SpecShare == ItlInit /\ [][ShareNext]_vars

\* the decoders called with any n_coded from -1 up to the buffer's length, on
\* every received buffer of 1 .. MaxBufPairs pairs of bits
BufWords == UNION {SeqsOfLen(Bits, 2 * n) : n \in 1 .. MaxBufPairs}

LenInit ==
    /\ x = <<>>
    /\ coded \in BufWords
    /\ flipped = -1
    /\ llr = <<>>
    /\ fec_pc = "received"
    /\ enc = [i |-> 0, state |-> 0]
    /\ dec = [k \in Kinds |-> IdleDec]
    /\ kept = <<>>
    /\ calls = <<>>
    /\ ItlIdle /\ HamIdle

LenDecoder(k) ==
    \/ \E n_coded \in (-1) .. Len(InBuf(k)) : ViterbiCall(k, n_coded)
    \/ ViterbiForward(k)
    \/ ViterbiSelect(k)
    \/ ViterbiTraceback(k)
    \/ ViterbiReturn(k)

LenNext ==
    \/ Demap
    \/ \E k \in Kinds : LenDecoder(k)

SpecLen == LenInit /\ [][LenNext]_vars

\* ================================================================= claims
Abs(v) == IF v < 0 THEN -v ELSE v
Size == itl.rows * itl.cols
Written(seq) == {i \in 1 .. Len(seq) : seq[i] # Uninit}
HardDone == dec["hard"].pc = "done" /\ kept = <<>>
SoftDone == dec["soft"].pc = "done" /\ kept = <<>>

\* C1: noiseless round trip: viterbi_decode applied to conv_encode(x) writes
\* decoded[i] = x[i] for every i in [0, n).
C1_NoiselessRoundTrip ==
    (HardDone /\ flipped = -1) =>
        \A i \in 1 .. Len(x) : dec["hard"].decoded[i] = x[i]

\* C2: single-error correction: with one coded bit of conv_encode(x) inverted,
\* viterbi_decode returns exactly x.
C2_SingleErrorCorrected ==
    (HardDone /\ flipped >= 0) =>
        /\ dec["hard"].ret = Len(x)
        /\ dec["hard"].decoded = x

\* C3: interleaver round trip: with n = rows * cols, interleaver_deapply of
\* interleaver_apply of x yields x at every index.
C3_InterleaverRoundTrip ==
    (itl_pc = "deapplied" /\ burst = <<0, 0>> /\ n_arg = Size) => rec = data

C3_Witness ==
    /\ itl_pc = "deapplied" /\ burst = <<0, 0>> /\ n_arg = Size
    /\ itl.rows = 2 /\ itl.cols = 3
    /\ data = <<0, 1, 2, 3, 4, 5>>
    /\ tx = <<0, 3, 1, 4, 2, 5>>
    /\ rec = data

\* the original-order positions where the deinterleaved cells differ from the
\* payload, and the least distance between two of them
ErrorPositions == {i \in 0 .. (n_arg - 1) : rec[i + 1] # data[i + 1]}
SpreadAtLeast(d) ==
    \A i \in ErrorPositions, j \in ErrorPositions : i # j => Abs(i - j) >= d
BurstDeapplied ==
    /\ itl_pc = "deapplied" /\ n_arg = Size
    /\ burst[2] >= 1 /\ burst[2] <= itl.rows

C5_SoftAgreesWithHard ==
    (SoftDone /\ flipped = -1) =>
        /\ dec["soft"].decoded = dec["hard"].decoded
        /\ dec["soft"].ret = dec["hard"].ret

C5_Witness ==
    /\ SoftDone /\ flipped = -1
    /\ x = <<1, 0, 1, 1, 0, 1>>
    /\ llr = <<-10, -10, -10, 10, -10, -10, -10, 10, 10, -10, 10, -10>>
    /\ dec["soft"].decoded = <<0, 0, 0, 0, 0, 1>>
    /\ dec["soft"].ret = 6

\* C6: viterbi_decode returns n_coded / 2 and writes that many decoded bits,
\* for every even n_coded >= 2.
C6_ReturnsHalfLength ==
    (HardDone /\ dec["hard"].n_coded >= 2 /\ dec["hard"].n_coded % 2 = 0) =>
        /\ dec["hard"].ret = dec["hard"].n_coded \div 2
        /\ Written(dec["hard"].decoded) = 1 .. (dec["hard"].n_coded \div 2)

\* C7: when n_coded / 2 exceeds 256, both decoders return 256 (no error
\* value), write decoded[0 .. 255] only, and those bits are the result of
\* decoding the first 512 coded elements alone.
Truncated(k) == kept # <<>> /\ dec[k].pc = "done"
C8_NoPartialState ==
    itl_pc = "failed" =>
        /\ itl_ret = -1
        /\ itl.perm = NULL /\ itl.inv = NULL
        /\ \A b \in 1 .. Len(heap) : freed[b] >= 1

\* C9: after a successful interleaver_init, perm[r*cols + c] = c*rows + r and
\* perm and inv are mutually inverse bijections on [0, rows*cols).
TablesLive == itl_pc \in {"ready", "applied", "received", "deapplied", "overrun"}
C9_MutuallyInverse ==
    TablesLive =>
        LET perm == heap[itl.perm]
            inv == heap[itl.inv]
        IN  /\ itl_ret = 0
            /\ Len(perm) = Size /\ Len(inv) = Size
            /\ \A r \in 0 .. (itl.rows - 1), c \in 0 .. (itl.cols - 1) :
                  perm[r * itl.cols + c + 1] = c * itl.rows + r
            /\ \A i \in 0 .. (Size - 1) :
                  /\ perm[i + 1] \in 0 .. (Size - 1)
                  /\ inv[i + 1] \in 0 .. (Size - 1)
                  /\ inv[perm[i + 1] + 1] = i
                  /\ perm[inv[i + 1] + 1] = i

C9_Witness ==
    /\ itl_pc = "ready" /\ itl_ret = 0
    /\ itl.rows = 2 /\ itl.cols = 3
    /\ heap[itl.perm] = <<0, 2, 4, 1, 3, 5>>
    /\ heap[itl.inv] = <<0, 3, 1, 4, 2, 5>>

\* C10: for every n <= rows*cols, interleaver_apply and interleaver_deapply
\* called with length n write only output indices in [0, n).
C10_WritesBelowN ==
    (itl_pc \in {"applied", "deapplied", "overrun"} /\ n_arg <= Size) =>
        /\ wrote \subseteq 0 .. (n_arg - 1)
        /\ oob = {}

\* the input and output arrays and the table of the last apply / deapply call
LastIn == IF itl_pc = "applied" THEN data ELSE rx
LastOut == IF itl_pc = "applied" THEN tx ELSE rec
LastTable == IF itl_pc = "applied" THEN heap[itl.perm] ELSE heap[itl.inv]
LongCall == itl_pc \in {"applied", "deapplied"} /\ n_arg > Size

\* C11 (as claimed): with n > rows*cols the first rows*cols elements are
\* permuted and every output element at rows*cols <= i < n equals input[i].
C11_TailPassedThrough ==
    LongCall =>
        /\ \A i \in 0 .. (Size - 1) : LastOut[LastTable[i + 1] + 1] = LastIn[i + 1]
        /\ \A i \in Size .. (n_arg - 1) :
              LastOut[i + 1] # Uninit /\ LastOut[i + 1] = LastIn[i + 1]

\* C11 (amended): with n > rows*cols the first rows*cols elements are
\* permuted and no output element at rows*cols <= i < n is written: it keeps
\* what the output array held before the call.
C11_TailUnwritten ==
    LongCall =>
        /\ \A i \in 0 .. (Size - 1) : LastOut[LastTable[i + 1] + 1] = LastIn[i + 1]
        /\ wrote = 0 .. (Size - 1)
        /\ \A i \in Size .. (n_arg - 1) : LastOut[i + 1] = Uninit

C11_Witness ==
    /\ itl_pc = "applied" /\ n_arg = Size + 1
    /\ itl.rows = 2 /\ itl.cols = 2
    /\ data = <<0, 1, 2, 3, 4>>
    /\ tx = <<0, 2, 1, 3, Uninit>>

\* in[i - j], zero before index 0
Tap(i, j) == IF i - j >= 0 THEN x[i - j + 1] ELSE 0
\* parity of the taps of in[i], in[i-1], .. in[i-6] that generator g selects,
\* in[i] at the generator's low bit
WindowParity(i, g) ==
    (  BitAt(g, 0) * Tap(i, 0) + BitAt(g, 1) * Tap(i, 1) + BitAt(g, 2) * Tap(i, 2)
     + BitAt(g, 3) * Tap(i, 3) + BitAt(g, 4) * Tap(i, 4) + BitAt(g, 5) * Tap(i, 5)
     + BitAt(g, 6) * Tap(i, 6)) % 2

\* C12: conv_encode writes exactly out[0 .. 2n-1] for every n >= 0, and
\* out[2i], out[2i+1] are the parities of the window in[i], in[i-1], .. in[i-6]
\* (zeros before index 0, in[i] in the low bit) under generators 0133 and 0171.
C12_EncoderOutput ==
    /\ fec_pc = "encoding" => Len(coded) = 2 * enc.i
    /\ fec_pc = "encoded" =>
          /\ Len(coded) = 2 * Len(x)
          /\ \A i \in 0 .. (Len(x) - 1) :
                /\ coded[2 * i + 1] = WindowParity(i, 91)
                /\ coded[2 * i + 2] = WindowParity(i, 121)

C12_Witness ==
    /\ fec_pc = "encoded"
    /\ x = <<1, 0, 0, 0, 0, 0, 0, 1, 1>>
    /\ coded = <<1, 1, 1, 0, 0, 0, 1, 1, 1, 1, 0, 1, 1, 1, 1, 1, 0, 1>>

\* the input array of each decoder call
OwnInput(k) == IF k = "hard" THEN coded ELSE llr

\* C13: when the viterbi_decode and viterbi_decode_soft calls run interleaved
\* at any step granularity on separate buffers, each call's decoded bits and
\* return value equal those of the same call run alone.
C13_ConcurrentEqualsAlone ==
    \A k \in Kinds :
        dec[k].pc = "done" =>
            LET alone == ViterbiAlone(k, OwnInput(k), dec[k].n_coded)
            IN  dec[k].decoded = alone.decoded /\ dec[k].ret = alone.ret

\* the soft call has returned while the hard call, entered before it
\* returned, is still inside its forward loop
C13_Witness ==
    /\ x = <<1, 0, 1>> /\ flipped = 2
    /\ dec["soft"].pc = "done" /\ dec["soft"].ret = 3
    /\ dec["hard"].pc = "forward" /\ dec["hard"].t = 2

OutputsOfOwnInput ==
    /\ fec_pc = "encoded" => coded = conv_encode(x)
    /\ \A k \in Kinds :
          dec[k].pc = "done" =>
              LET alone == ViterbiAlone(k, OwnInput(k), dec[k].n_coded)
              IN  dec[k].decoded = alone.decoded /\ dec[k].ret = alone.ret

\* decoder k takes a step of its call
DecStep(k) == dec'[k] # dec[k] /\ dec'[k].pc # "idle"

\* a step of a call writes nothing but the call's own locals and output
WritesOwnOutput ==
    /\ \A k \in Kinds :
          DecStep(k) =>
              /\ x' = x /\ coded' = coded /\ llr' = llr /\ enc' = enc
              /\ \A j \in Kinds \ {k} : dec'[j] = dec[j]
    /\ fec_pc \in {"start", "encoding"} => x' = x /\ llr' = llr /\ dec' = dec

\* C14: in any sequence of conv_encode, viterbi_decode and viterbi_decode_soft
\* calls each call's output depends only on its own input (nothing carries
\* over from earlier calls), and a call modifies nothing but its own output
\* array.
C14_NoCarryOver == []OutputsOfOwnInput /\ [][WritesOwnOutput]_vars

\* the second round of calls has returned
C14_Witness ==
    /\ calls = << <<1, 1, 1>> >>
    /\ x = <<0, 0, 1>>
    /\ coded = <<0, 0, 0, 0, 1, 1>>
    /\ \A k \in Kinds : dec[k].pc = "done" /\ dec[k].ret = 3

\* the test's count: the indices d <= i < n - 6 with decoded[i] != x[i - d]
Mismatches(d) ==
    Cardinality({i \in d .. (Len(x) - 7) : dec["hard"].decoded[i + 1] # x[i - d + 1]})

\* C15: for a noiseless conv_encode output of an n-bit input x there is a
\* delay d in [0, 6] with decoded[i] = x[i - d] on d <= i < n - 6 up to at
\* most 2 mismatches.
C15_DelayTolerant ==
    (HardDone /\ flipped = -1) => \E d \in 0 .. 6 : Mismatches(d) <= 2

\* the word of period 7 decoded: delay 5 fits exactly, no other delay does
C15_Witness ==
    /\ HardDone /\ flipped = -1
    /\ Len(x) = 64 /\ \A i \in 1 .. 64 : x[i] = (IF (i - 1) % 7 = 1 THEN 1 ELSE 0)
    /\ Mismatches(5) = 0
    /\ \A d \in (0 .. 6) \ {5} : Mismatches(d) > 2

HammingDistance(a, b) == Cardinality({i \in 1 .. Len(a) : a[i] # b[i]})
Min(S) == CHOOSE m \in S : \A e \in S : m <= e

\* the state the traceback left for time t (t = 0: before the first step)
TrailState(k, t) == IF t = 0 THEN dec[k].state ELSE dec[k].trail[t]
\* the two bits conv_encode puts out on the transition from state p to state s
Expected(p, s) ==
    LET reg == EncShift(p, s % 2) IN <<EncOut0(reg), EncOut1(reg)>>
\* Hamming distance between the outputs along the trail and the received bits
TrailDistance ==
    Cardinality({tc \in (1 .. dec["hard"].max_len) \X {1, 2} :
        Expected(TrailState("hard", tc[1] - 1), TrailState("hard", tc[1]))[tc[2]]
            # coded[2 * (tc[1] - 1) + tc[2]]})

\* C17: the metric of the final state viterbi_decode selects is the minimum
\* over all 2^n input sequences of the Hamming distance between conv_encode(x)
\* and the received bits, and the traceback follows a valid trellis path from
\* state 0 whose outputs attain that distance.
C17_MaximumLikelihood ==
    (dec["hard"].pc = "done" /\ dec["hard"].ret >= 1) =>
        LET n == dec["hard"].max_len
            best == Min({HammingDistance(conv_encode(w), coded) :
                            w \in SeqsOfLen(Bits, n)})
        IN  /\ Len(dec["hard"].trail) = n
            /\ dec["hard"].pm_old[TrailState("hard", n)] = best
            /\ TrailState("hard", 0) = 0
            /\ \A t \in 1 .. n : \E b \in Bits :
                  NextState(TrailState("hard", t - 1), b) = TrailState("hard", t)
            /\ TrailDistance = best

\* 8 received pairs at distance 3 from the nearest codeword
C17_Witness ==
    /\ dec["hard"].pc = "done" /\ dec["hard"].ret = 8
    /\ TrailDistance = 3

\* C18: the bit the traceback writes to decoded[t] is the input bit of the
\* survivor transition taken at step t, the bit shifted into the register
\* when moving from path[t][state] to state (the low bit of state), and
\* decoded[t] is the cell of time step t.
C18_WritesInputBit ==
    \A k \in Kinds :
        dec[k].pc \in {"traceback", "done"} =>
            \A j \in 1 .. Len(dec[k].trail) :
                dec[k].decoded[dec[k].t + j + 1] = dec[k].trail[j] % 2

\* the states with a finite metric in pm that have a transition into ns
FinitePreds(pm, ns) ==
    {s \in States : pm[s] < VITERBI_INF /\ \E b \in Bits : NextState(s, b) = ns}
\* candidate cost of the transition from s into ns on the received pair r
Candidate(k, pm, r, s, ns) ==
    LET out == Expected(s, ns) IN Metric(k, pm[s], out[1], out[2], r)

\* the add-compare-select outcome for destination ns: from metrics pm and
\* received pair r to new metric pm_new and survivor prev
AcsHolds(k, pm, r, ns, pm_new, prev) ==
    LET P == FinitePreds(pm, ns)
        least == Min({Candidate(k, pm, r, s, ns) : s \in P})
    IN  P # {} =>
            /\ pm_new = least
            /\ prev \in P
            /\ Candidate(k, pm, r, prev, ns) = least
            /\ \A s \in P : Candidate(k, pm, r, s, ns) = least => prev <= s

\* decoder k completes time step t = dec[k].t of its forward loop
ForwardStepOf(k) ==
    /\ dec[k].pc = "forward" /\ dec'[k].pc = "forward"
    /\ dec'[k].t = dec[k].t + 1

AcsStepHolds ==
    \A k \in Kinds :
        ForwardStepOf(k) =>
            \A ns \in States :
                AcsHolds(k, dec[k].pm_old, RecvPair(k, OwnInput(k), dec[k].t), ns,
                         dec'[k].pm_old[ns], dec'[k].path[dec[k].t + 1][ns])

\* C19: after each time step t, every destination state with a finite-metric
\* predecessor has as new metric the minimum candidate cost over its incoming
\* transitions from finite-metric states, and path[t][ns] is a predecessor
\* attaining it, the lower-numbered one when both candidates are equal.
C19_AddCompareSelect == [][AcsStepHolds]_vars

\* time step 7 has run; some destination had two finite-metric predecessors
\* of equal candidate cost and the lower-numbered one was recorded
C19_Witness ==
    /\ dec["hard"].pc = "forward" /\ dec["hard"].t = 8
    /\ LET pm == ForwardAlone("hard", coded, 7, 0,
                              [pm |-> InitMetrics, path |-> <<>>]).pm
           r == RecvPair("hard", coded, 7)
       IN  \E ns \in States :
              /\ Cardinality(FinitePreds(pm, ns)) = 2
              /\ \A s \in FinitePreds(pm, ns) :
                    Candidate("hard", pm, r, s, ns) = dec["hard"].pm_old[ns]
              /\ dec["hard"].path[8][ns] = ns \div 2

\* decoder k has left the forward loop and not yet run a traceback step
Selected(k) ==
    /\ dec[k].pc = "traceback"
    /\ dec[k].t = dec[k].max_len - 1
    /\ dec[k].trail = <<>>
\* the states of minimum metric in pm
Minimal(pm) == {s \in States : \A q \in States : pm[s] <= pm[q]}

\* C20: after the last time step the traceback starts from the state of
\* minimum path metric, the lowest-numbered one when several share it.
C20_FinalState ==
    \A k \in Kinds :
        Selected(k) =>
            /\ dec[k].state \in Minimal(dec[k].pm_old)
            /\ \A s \in Minimal(dec[k].pm_old) : dec[k].state <= s

\* several states share the minimum and the lowest of them, not state 0, is
\* where the traceback starts
C20_Witness ==
    /\ Selected("hard")
    /\ Cardinality(Minimal(dec["hard"].pm_old)) >= 2
    /\ dec["hard"].state = Min(Minimal(dec["hard"].pm_old))
    /\ dec["hard"].state > 0

\* decoder k is at time step 0 of its forward loop
AtStepZero(k) == dec[k].pc = "forward" /\ dec[k].t = 0

\* the metrics a call starts from
StartsFromStateZero ==
    \A k \in Kinds :
        AtStepZero(k) =>
            /\ dec[k].pm_old[0] = 0
            /\ \A s \in States \ {0} : dec[k].pm_old[s] = VITERBI_INF

\* a time step writes the metric and survivor of ns only from predecessors of
\* finite metric, and leaves an ns without such a predecessor at the infinite
\* metric with its survivor unwritten
ExpandsFiniteOnly ==
    \A k \in Kinds :
        ForwardStepOf(k) =>
            \A ns \in States :
                LET prev == dec'[k].path[dec[k].t + 1][ns]
                IN  IF FinitePreds(dec[k].pm_old, ns) = {}
                    THEN prev = Uninit /\ dec'[k].pm_old[ns] = VITERBI_INF
                    ELSE prev \in FinitePreds(dec[k].pm_old, ns)

\* C21: at time step 0 of every viterbi_decode / viterbi_decode_soft call
\* state 0 has metric 0 and every other state the infinite metric, and a
\* state with the infinite metric is never expanded as a predecessor.
C21_Initialisation == []StartsFromStateZero /\ [][ExpandsFiniteOnly]_vars

\* time step 0 of the soft call has run: only the successors 0 and 1 of
\* state 0 were reached
C21_Witness ==
    /\ dec["soft"].pc = "forward" /\ dec["soft"].t = 1
    /\ {s \in States : dec["soft"].pm_old[s] < VITERBI_INF} = {0, 1}
    /\ {s \in States : dec["soft"].path[1][s] # Uninit} = {0, 1}
    /\ dec["soft"].path[1][0] = 0 /\ dec["soft"].path[1][1] = 0

\* conv_encode runs one iteration of its loop
EncoderStep == fec_pc = "encoding" /\ enc'.i = enc.i + 1

\* the encoder iteration and the decoders' transition (s, b) agree, s the low
\* 6 bits of the register before the iteration and b the bit shifted in
SameTransition ==
    EncoderStep =>
        LET s == enc.state % CONV_STATES
            b == x[enc.i + 1]
        IN  /\ enc'.state % CONV_STATES = NextState(s, b)
            /\ coded'[2 * enc.i + 1] = BranchE0(FullState(s, b))
            /\ coded'[2 * enc.i + 2] = BranchE1(FullState(s, b))

\* C22: for every state s in [0, 64) and input bit b the encoder step from a
\* register whose low 6 bits are s gives the same next state and output pair
\* as the transition (s, b) evaluated in viterbi_decode and
\* viterbi_decode_soft.
C22_SharedTrellis == [][SameTransition]_vars

\* the eighth iteration on 1 0 0 0 0 0 0 1: the register held 64 (bit 6 set,
\* s = 0) and the bit 1 came in
C22_Witness ==
    /\ fec_pc = "encoding" /\ enc.i = 8
    /\ SubSeq(x, 1, 8) = <<1, 0, 0, 0, 0, 0, 0, 1>>
    /\ enc.state = 1
    /\ coded[15] = BranchE0(FullState(0, 1)) /\ coded[16] = BranchE1(FullState(0, 1))

\* the transitions (s, bit) out of state s and into state ns
Outgoing(s) == {sb \in {s} \X Bits : NextState(sb[1], sb[2]) \in States}
Incoming(ns) == {sb \in States \X Bits : NextState(sb[1], sb[2]) = ns}

\* C23: with nextState = ((state << 1) | inputBit) mod 64 every state in
\* [0, 64) has exactly two outgoing transitions (input bit 0 and 1) and
\* exactly two incoming transitions, from states ns >> 1 and (ns >> 1) + 32,
\* and every next state stays in [0, 64); the decoders' metrics and
\* survivors stay within that graph.
C23_TrellisStructure ==
    /\ \A s \in States :
          /\ Cardinality(Outgoing(s)) = 2
          /\ NextState(s, 0) # NextState(s, 1)
          /\ Cardinality(Incoming(s)) = 2
          /\ {sb[1] : sb \in Incoming(s)} = {s \div 2, (s \div 2) + 32}
          /\ AcsItersOf[s] = {2 * sb[1] + sb[2] : sb \in Incoming(s)}
    /\ \A k \in Kinds :
          dec[k].pc \in {"forward", "traceback", "done"} =>
              /\ DOMAIN dec[k].pm_old = States
              /\ \A t \in 1 .. Len(dec[k].path) : \A ns \in States :
                    dec[k].path[t][ns] # Uninit =>
                        dec[k].path[t][ns] \in {ns \div 2, (ns \div 2) + 32}

\* time step 7 has run from 64 finite states: some survivors are the lower
\* incoming state ns >> 1, others the upper one (ns >> 1) + 32
C23_Witness ==
    /\ dec["hard"].pc = "forward" /\ dec["hard"].t = 8
    /\ \A ns \in States : dec["hard"].path[8][ns] # Uninit
    /\ \E ns \in States : dec["hard"].path[8][ns] = ns \div 2
    /\ \E ns \in States : dec["hard"].path[8][ns] = (ns \div 2) + 32

\* the survivor rows of a call in progress stay as they are
RowsFrozen ==
    \A k \in Kinds :
        dec[k].pc \in {"forward", "traceback"} =>
            \A t \in 1 .. Len(dec[k].path) : dec'[k].path[t] = dec[k].path[t]
\* the largest number of stores any survivor entry of decoder k has received
StoresAtMost(k, m) ==
    \A t \in 1 .. Len(dec[k].stores) : \A ns \in States : dec[k].stores[t][ns] <= m

\* C24 (as claimed): once a survivor entry path[t][state] has been written it
\* is never written again, neither within time step t, nor by later time
\* steps, nor by traceback.
C24_WriteOnce ==
    [](\A k \in Kinds : StoresAtMost(k, 1)) /\ [][RowsFrozen]_vars

\* C24 (amended): a survivor entry path[t][ns] is written at most twice, both
\* times within time step t (the second store, by the upper predecessor
\* (ns >> 1) + 32, only when its candidate is strictly cheaper); once time
\* step t is over it is never written again, by later steps or by traceback.
C24_WrittenWithinStep ==
    /\ [](\A k \in Kinds :
            /\ StoresAtMost(k, 2)
            /\ \A t \in 1 .. Len(dec[k].stores) : \A ns \in States :
                  /\ dec[k].stores[t][ns] = 0 <=> dec[k].path[t][ns] = Uninit
                  /\ dec[k].stores[t][ns] = 2 => dec[k].path[t][ns] = (ns \div 2) + 32)
    /\ [][RowsFrozen]_vars

\* time step 7 stored twice to some survivor entry
C24_Witness ==
    /\ dec["hard"].pc = "forward" /\ dec["hard"].t = 8
    /\ \E ns \in States :
          dec["hard"].stores[8][ns] = 2 /\ dec["hard"].path[8][ns] = (ns \div 2) + 32

\* a_i of the claim: the LLR when the expected bit is 0, its negative when 1
Agreement(e, l) == IF e = 0 THEN l ELSE -l
SoftCost(e, l) == -(Agreement(e[1], l[1]) + Agreement(e[2], l[2]))
\* the output pair that agrees in sign with the LLR pair l (positive: bit 0)
Agreeing(l) == <<IF l[1] >= 0 THEN 0 ELSE 1, IF l[2] >= 0 THEN 0 ELSE 1>>

SoftCostAdded ==
    ForwardStepOf("soft") =>
        LET r == RecvPair("soft", llr, dec["soft"].t)
        IN  /\ \A ns \in States :
                  LET prev == dec'["soft"].path[dec["soft"].t + 1][ns]
                  IN  prev # Uninit =>
                          dec'["soft"].pm_old[ns] =
                              dec["soft"].pm_old[prev] + SoftCost(Expected(prev, ns), r)
            /\ \A e \in Bits \X Bits : SoftCost(Agreeing(r), r) <= SoftCost(e, r)
            /\ \A e \in (Bits \X Bits) \ {Agreeing(r)} :
                  (r[1] # 0 /\ r[2] # 0) => SoftCost(Agreeing(r), r) < SoftCost(e, r)

\* C25: in viterbi_decode_soft the cost added for a transition with expected
\* pair (e0, e1) on LLR pair (l0, l1) is -(a0 + a1), ai = li when ei = 0 and
\* -li when ei = 1; so the pair agreeing in sign with both LLRs has the
\* smallest cost of the four pairs.
C25_SoftBranchCost == [][SoftCostAdded]_vars

\* step 0 on the LLR pair (2, -1): the transition to state 0 expects 0 0 and
\* costs -(2 - 1), the transition to state 1 expects 1 1 and costs -(-2 + 1)
C25_Witness ==
    /\ dec["soft"].pc = "forward" /\ dec["soft"].t = 1
    /\ llr[1] = 2 /\ llr[2] = -1
    /\ dec["soft"].pm_old[0] = -1
    /\ dec["soft"].pm_old[1] = 1

\* the tables as interleaver_init writes them: perm[r * cols + c] = c * rows + r
\* and inv[c * rows + r] = r * cols + c
TablesAsBuilt ==
    /\ heap[itl.perm] = [i \in 1 .. Size |->
                            ((i - 1) % itl.cols) * itl.rows + ((i - 1) \div itl.cols)]
    /\ heap[itl.inv] = [j \in 1 .. Size |->
                           ((j - 1) % itl.rows) * itl.cols + ((j - 1) \div itl.rows)]
\* the apply and the deapply call that ran together have both returned
Joined == itl_pc = "ready" /\ Len(tx) = Size

TablesKept ==
    /\ (itl_pc = "sharing" \/ Joined) => TablesAsBuilt
    /\ Joined =>
          /\ tx = Permute(ApplyTable, data, n_arg, n_arg).out
          /\ rec = Permute(DeapplyTable, rx, n_arg, n_arg).out

\* a step of an apply or deapply call in progress
CallsWriteOutputsOnly ==
    itl_pc = "sharing" =>
        /\ itl' = itl /\ heap' = heap /\ freed' = freed
        /\ data' = data /\ rx' = rx

\* C26: interleaver_apply and interleaver_deapply never modify rows, cols,
\* perm, inv or their input array, so across any sequence or concurrent
\* interleaving of calls between interleaver_init and interleaver_free the
\* tables keep the contents init wrote and every call gives the result it
\* gives when run alone.
C26_TablesImmutable == []TablesKept /\ [][CallsWriteOutputsOnly]_vars

\* a 2 x 3 interleaver mid-way through both calls: apply has stored 4 cells,
\* deapply 2
C26_Witness ==
    /\ itl_pc = "sharing"
    /\ itl.rows = 2 /\ itl.cols = 3
    /\ job = [a |-> 4, d |-> 2]
    /\ data = <<0, 1, 2, 3, 4, 5>> /\ rx = <<0, 1, 2, 3, 4, 5>>
    /\ tx = <<0, 3, 1, Uninit, 2, Uninit>>
    /\ rec = <<0, Uninit, Uninit, 1, Uninit, Uninit>>

\* after interleaver_free: both pointers NULL, every block released once
Released ==
    /\ itl_pc = "freed" =>
          /\ itl.perm = NULL /\ itl.inv = NULL
          /\ \A b \in 1 .. Len(heap) : freed[b] = 1
    /\ \A b \in 1 .. Len(freed) : freed[b] <= 1

\* a call on an Interleaver already freed changes nothing
FreeAgainIdle == itl_pc = "freed" => UNCHANGED itlVars

\* C27: after interleaver_free both perm and inv are NULL and each table the
\* preceding interleaver_init allocated has been released exactly once; a
\* repeated interleaver_free releases nothing again and leaves the state
\* unchanged.
C27_ReleasedOnce == []Released /\ [][FreeAgainIdle]_vars

\* freed after an init whose second malloc failed: the one table that was
\* allocated is released, once
C27_Witness ==
    /\ itl_pc = "freed"
    /\ itl_ret = -1
    /\ Len(heap) = 1 /\ freed = <<1>>
    /\ itl.perm = NULL /\ itl.inv = NULL

\* pm_old of decoder k as it was when time steps 0 .. t-1 had run
MetricsAt(k, t) ==
    ForwardAlone(k, OwnInput(k), t, 0, [pm |-> InitMetrics, path |-> <<>>]).pm

\* C28: every state the traceback visits at time t had a finite metric at
\* time t and its entry path[t][state] was written by the forward pass, so
\* the traceback never reads an unwritten survivor entry and ends at state 0
\* after step 0.
C28_NoUnwrittenRead ==
    \A k \in Kinds :
        /\ dec[k].pc = "traceback" =>
              /\ dec[k].t >= 0 => dec[k].path[dec[k].t + 1][dec[k].state] # Uninit
              /\ \A j \in 1 .. Len(dec[k].trail) :
                    dec[k].path[dec[k].t + 1 + j][dec[k].trail[j]] # Uninit
        /\ (dec[k].pc = "done" /\ dec[k].ret >= 1) =>
              /\ dec[k].state = 0
              /\ \A t \in 1 .. dec[k].max_len :
                    /\ dec[k].path[t][dec[k].trail[t]] # Uninit
                    /\ MetricsAt(k, t)[dec[k].trail[t]] < VITERBI_INF

\* a soft call on 3 pairs has returned: the traceback went through states
\* that were among the few finite ones at their time
C28_Witness ==
    /\ dec["soft"].pc = "done" /\ dec["soft"].ret = 3
    /\ dec["soft"].state = 0
    /\ dec["soft"].trail[3] > 0
    /\ Cardinality({s \in States : MetricsAt("soft", 3)[s] < VITERBI_INF}) = 8

\* C29: viterbi_decode and viterbi_decode_soft write decoded[t] = bit 5 of the
\* survivor-path state at time t; so decoded[t] = 0 for every t < 5 whatever
\* the input, and for t >= 5 decoded[t] is the input bit of the survivor
\* path's transition at step t - 5.
C29_OutputBitPosition ==
    \A k \in Kinds :
        (dec[k].pc = "done" /\ dec[k].ret >= 1) =>
            \A t \in 0 .. (dec[k].max_len - 1) :
                /\ dec[k].decoded[t + 1] = (dec[k].trail[t + 1] \div 32) % 2
                /\ t < 5 => dec[k].decoded[t + 1] = 0
                /\ t >= 5 => dec[k].decoded[t + 1] = dec[k].trail[t - 5 + 1] % 2

\* 8 pairs decoded: the survivor path shifted in 1 at steps 0 and 2, and they
\* come out as decoded[5] and decoded[7]
C29_Witness ==
    /\ dec["hard"].pc = "done" /\ dec["hard"].ret = 8
    /\ dec["hard"].trail[1] % 2 = 1 /\ dec["hard"].trail[3] % 2 = 1
    /\ dec["hard"].decoded[6] = 1 /\ dec["hard"].decoded[8] = 1
    /\ \A t \in 1 .. 5 : dec["hard"].decoded[t] = 0

\* buf with its element of C index n - 1 replaced by the opposite value
OtherLast(k, buf, n) ==
    [buf EXCEPT ![n] = IF k = "hard" THEN 1 - @ ELSE -@]

\* C30: viterbi_decode and viterbi_decode_soft called with n_coded < 2 return
\* 0 and write nothing to decoded; called with an odd n_coded >= 3 they never
\* read the last coded element and return and write exactly what they do for
\* n_coded - 1.
C30_ShortAndOddLengths ==
    \A k \in Kinds :
        dec[k].pc = "done" =>
            LET n == dec[k].n_coded
            IN  /\ n < 2 => dec[k].ret = 0 /\ Written(dec[k].decoded) = {}
                /\ (n >= 3 /\ n % 2 = 1) =>
                      LET even == ViterbiAlone(k, OtherLast(k, OwnInput(k), n), n - 1)
                      IN  dec[k].decoded = even.decoded /\ dec[k].ret = even.ret

\* the hard call with n_coded = 1 returned 0 and left decoded unwritten; the
\* soft call with n_coded = 3 returned 1 with one decoded cell written
C30_Witness ==
    /\ dec["hard"].pc = "done" /\ dec["hard"].n_coded = 1
    /\ dec["hard"].ret = 0 /\ dec["hard"].decoded = <<Uninit>>
    /\ dec["soft"].pc = "done" /\ dec["soft"].n_coded = 3
    /\ dec["soft"].ret = 1 /\ dec["soft"].decoded = <<0>>
    /\ coded = <<1, 1, 0, 1>>

====
